---- MODULE Spec2Model ----
(***************************************************************************)
(* Model of framework.py: the ExampleScheduler (offer matching, task       *)
(* building, terminal counting) and the __main__ supervision wrapper.      *)
(*                                                                         *)
(* Offer cpu values are IEEE-754 binary64 numbers, as in the protobuf      *)
(* scalar field and the Python floats the loop subtracts.  A non-negative  *)
(* double below 4.0 whose unit in the last place is at least 2^-56 is      *)
(* written as the integer N = value * 2^56, kept in two limbs              *)
(* [hi, lo] with N = hi * 2^28 + lo.  Memory values are whole numbers of   *)
(* megabytes; doubles hold those exactly, so they are plain integers.      *)
(***************************************************************************)
EXTENDS Integers, Sequences, FiniteSets, TLC

\* ---------------------------------------------------------------- bounds
MaxExecutors == 3
MaxTasksPerExecutor == 2
MaxOffersPerCallback == 2
MaxTerminalUpdates == 3
MaxReporters == 2

\* ------------------------------------------------- binary64 arithmetic
Limb == 2^28

Dbl(h, l) == [hi |-> h, lo |-> l]

DblZero == Dbl(0, 0)

\* a >= b on doubles (framework.py:112, offer_cpu >= self.TASK_CPU)
DblGE(a, b) == a.hi > b.hi \/ (a.hi = b.hi /\ a.lo >= b.lo)

\* the exact real difference a - b, for a >= b
DblExactSub(a, b) ==
    IF a.lo >= b.lo
    THEN Dbl(a.hi - b.hi, a.lo - b.lo)
    ELSE Dbl(a.hi - b.hi - 1, a.lo + Limb - b.lo)

\* log2 of the unit in the last place of the binade of n, in units of 2^-56:
\* a 53-bit significand keeps N exact below 2^53, and drops k low bits for
\* N in [2^(52+k), 2^(53+k))
UlpExp(n) ==
    IF n.hi < 2^25 THEN 0
    ELSE IF n.hi < 2^26 THEN 1
    ELSE IF n.hi < 2^27 THEN 2
    ELSE IF n.hi < 2^28 THEN 3
    ELSE IF n.hi < 2^29 THEN 4
    ELSE 5

\* round to nearest, ties to even, to 53 significant bits
RoundNearestEven(n) ==
    LET u    == 2^UlpExp(n)
        r    == n.lo % u
        down == n.lo - r
        odd  == (down \div u) % 2 = 1
        up   == (2 * r > u) \/ (2 * r = u /\ odd)
    IN  IF ~up THEN Dbl(n.hi, down)
        ELSE IF down + u = Limb THEN Dbl(n.hi + 1, 0)
        ELSE Dbl(n.hi, down + u)

\* a - b as Python computes it on floats (framework.py:115)
DblSub(a, b) == RoundNearestEven(DblExactSub(a, b))

\* ------------------------------------------------------ program constants
\* TASK_CPU = 0.1 is the double 0x1.999999999999ap-4
\*          = 7205759403792794 * 2^-56 = (26843545 * 2^28 + 161061274) * 2^-56
TASK_CPU == Dbl(26843545, 161061274)
TASK_MEM == 32

\* ------------------------------------------------------------- inputs
\* cpus values an offer may carry, each as N = value * 2^56 in limbs:
\* 0.25 = 0x1.0p-2 and 0.6 = 0x1.3333333333333p-1 = 43234556422756760 * 2^-56
CpuQuarter == Dbl(67108864, 0)
CpuSixTenths == Dbl(161061273, 161061272)

Res(n, v) == [name |-> n, value |-> v]

\* the resource lists of the offers the master may send: enough for two
\* tasks (without and with a resource the scheduler does not look at), enough
\* for six, too little memory for one, no cpus entry, no mem entry
ResourceLists ==
    { <<Res("cpus", CpuQuarter), Res("mem", 96)>>,
      <<Res("cpus", CpuQuarter), Res("disk", 1024), Res("mem", 96)>>,
      <<Res("cpus", CpuSixTenths), Res("mem", 256)>>,
      <<Res("disk", 1024), Res("cpus", CpuSixTenths), Res("mem", 16)>>,
      <<Res("mem", 256)>>,
      <<Res("cpus", CpuSixTenths)>> }

\* offer ids are assigned by the master, distinct within a callback
OfferId(i) == i

OfferLists ==
    UNION {[1..n -> ResourceLists] : n \in 0..MaxOffersPerCallback}

MkOffers(rs) ==
    [i \in 1..Len(rs) |->
        [id |-> OfferId(i), slave_id |-> "slave", resources |-> rs[i]]]

\* task states of mesos_pb2 named by status_update (framework.py:190-198)
TerminalStates == {"FINISHED", "FAILED", "KILLED", "LOST"}
NonTerminalStates == {"STAGING", "STARTING", "RUNNING"}
TaskStates == NonTerminalStates \cup TerminalStates

\* the value of exitCode while the process runs
NotExited == 0 - 1

\* a task id no queue of this model ever holds
UnknownTaskId == "9:9"

\* ------------------------------------------------------------- state
VARIABLES
    num_tasks,      \* args.num_tasks
    num_executors,  \* args.num_executors
    tasks,          \* self.tasks: FIFO of <<executor, task>>
    terminal,       \* self.terminal
    total_tasks,    \* self.total_tasks
    event,          \* the callback the driver has delivered and that has not
                    \* returned yet, with its arguments; Idle between callbacks
    calls,          \* the driver calls that callback issued, in order
    steps,          \* history: per offer of that callback, the queue before
                    \* and after it and the number of _build_task calls
    launched,       \* history: every TaskInfo handed to launch_tasks so far
    terminalIds,    \* history: the task ids that reported a terminal state
    terminalUpdates,\* history: the number of terminal status updates so far
    stopped,        \* driver.stop() has been called
    runResult,      \* what driver.run() returned, "none" while it runs
    status,         \* the global status of __main__
    threadAlive,    \* t.isAlive()
    exitCode        \* the exit status of the process, NotExited while it runs

vars == <<num_tasks, num_executors, tasks, terminal, total_tasks, event, calls,
          steps, launched, terminalIds, terminalUpdates, stopped, runResult,
          status, threadAlive, exitCode>>

schedVars == <<tasks, terminal, total_tasks>>
mainVars == <<runResult, status, threadAlive, exitCode>>

\* ------------------------------------------------- queue construction
\* a single loop over the task index, for executor 0 alone
BuildQueueOneExecutor(nt, ne) ==
    [i \in 1..nt |-> <<0, i - 1>>]

\* the loops nested the other way round: executor outside, task inside
BuildQueueExecutorOuter(nt, ne) ==
    [i \in 1..(nt * ne) |-> <<(i - 1) \div nt, (i - 1) % nt>>]

\* for task in xrange(num_tasks): for executor in xrange(num_executors):
\*     tasks.put((executor, task, args))
BuildQueue(nt, ne) ==
    [i \in 1..(nt * ne) |-> <<(i - 1) % ne, (i - 1) \div ne>>]

\* ------------------------------------------------------- _build_task
Digits == <<"0", "1", "2", "3", "4", "5", "6", "7", "8", "9">>

RECURSIVE ToDecimal(_)
\* "%d" of a non-negative integer
ToDecimal(n) ==
    IF n < 10 THEN Digits[n + 1]
    ELSE ToDecimal(n \div 10) \o Digits[(n % 10) + 1]

\* the task id formatted from the executor id alone
TaskIdValueExecutorOnly(executor_id, task_id) ==
    ToDecimal(executor_id) \o ":" \o ToDecimal(executor_id)

\* "%d:%d" % (executor_id, task_id)
TaskIdValue(executor_id, task_id) ==
    ToDecimal(executor_id) \o ":" \o ToDecimal(task_id)

build_task(offer, executor_id, task_id) ==
    [name        |-> "Test Framework Task",
     task_id     |-> TaskIdValue(executor_id, task_id),
     slave_id    |-> offer.slave_id,
     executor_id |-> ToDecimal(executor_id),
     cpus        |-> TASK_CPU,
     mem         |-> TASK_MEM]

\* ---------------------------------------------------- resource_offers
RECURSIVE ScanResources(_, _, _)
\* for resource in offer.resources: the last entry of a name wins
ScanResources(resources, name, acc) ==
    IF resources = <<>> THEN acc
    ELSE ScanResources(Tail(resources), name,
                       IF Head(resources).name = name
                       THEN Head(resources).value ELSE acc)

\* offer_cpu starting from a positive value instead of 0
OfferCpuDefaultPositive(offer) ==
    ScanResources(offer.resources, "cpus", CpuSixTenths)

OfferCpu(offer) == ScanResources(offer.resources, "cpus", DblZero)
OfferMem(offer) == ScanResources(offer.resources, "mem", 0)

\* the while condition without "not self.tasks.empty()"
LoopCondNoEmptyCheck(offer_cpu, offer_mem, queue) ==
    /\ offer_mem >= TASK_MEM
    /\ DblGE(offer_cpu, TASK_CPU)

\* the while condition of framework.py:112-113
LoopCond(offer_cpu, offer_mem, queue) ==
    /\ offer_mem >= TASK_MEM
    /\ DblGE(offer_cpu, TASK_CPU)
    /\ queue # <<>>

RECURSIVE PackPopFirst(_, _, _, _, _)
\* the loop popping a task before it looks at the offer's capacity
PackPopFirst(offer, offer_cpu, offer_mem, queue, batch) ==
    IF queue = <<>>
    THEN [tasks |-> queue, batch |-> batch, blocked |-> FALSE]
    ELSE IF offer_mem >= TASK_MEM /\ DblGE(offer_cpu, TASK_CPU)
    THEN PackPopFirst(offer,
                      DblSub(offer_cpu, TASK_CPU),
                      offer_mem - TASK_MEM,
                      Tail(queue),
                      Append(batch,
                             build_task(offer, Head(queue)[1], Head(queue)[2])))
    ELSE [tasks |-> Tail(queue), batch |-> batch, blocked |-> FALSE]

RECURSIVE Pack(_, _, _, _, _)
\* the while loop of framework.py:112-123; self.tasks.get() of line 119 is a
\* blocking Queue.get(), so a pass of the body on an empty queue never returns
Pack(offer, offer_cpu, offer_mem, queue, batch) ==
    IF LoopCond(offer_cpu, offer_mem, queue)
    THEN IF queue = <<>>
         THEN [tasks |-> queue, batch |-> batch, blocked |-> TRUE]
         ELSE Pack(offer,
                   DblSub(offer_cpu, TASK_CPU),
                   offer_mem - TASK_MEM,
                   Tail(queue),
                   Append(batch,
                          build_task(offer, Head(queue)[1], Head(queue)[2])))
    ELSE [tasks |-> queue, batch |-> batch, blocked |-> FALSE]

LaunchCall(offer, batch) ==
    [call |-> "launch_tasks", offer_id |-> offer.id, tasks |-> batch]

DeclineCall(offer) ==
    [call |-> "decline_offer", offer_id |-> offer.id, tasks |-> <<>>]

StopCall == [call |-> "stop", offer_id |-> 0, tasks |-> <<>>]

\* lines 125-129 without the else branch of "if tasks:"
RespondNoElse(st, offer, r) ==
    [tasks |-> r.tasks,
     calls |-> IF r.batch # <<>> /\ ~r.blocked
               THEN Append(st.calls, LaunchCall(offer, r.batch))
               ELSE st.calls,
     steps |-> Append(st.steps, [before  |-> st.tasks,
                                 after   |-> r.tasks,
                                 built   |-> Len(r.batch),
                                 blocked |-> r.blocked])]

\* lines 125-129, for the queue and the batch r that the while loop left;
\* they are not reached when the loop is stuck in self.tasks.get()
Respond(st, offer, r) ==
    [tasks |-> r.tasks,
     calls |-> IF r.blocked THEN st.calls
               ELSE Append(st.calls,
                           IF r.batch # <<>>
                           THEN LaunchCall(offer, r.batch)
                           ELSE DeclineCall(offer)),
     steps |-> Append(st.steps, [before  |-> st.tasks,
                                 after   |-> r.tasks,
                                 built   |-> Len(r.batch),
                                 blocked |-> r.blocked])]

\* the iteration without the empty-queue check and without "if tasks:"
ProcessOfferAlwaysLaunch(st, offer) ==
    \* the loop runs on whatever the queue holds and its batch is launched
    [tasks |-> Pack(offer, OfferCpu(offer), OfferMem(offer),
                    st.tasks, <<>>).tasks,
     calls |-> Append(st.calls,
                      LaunchCall(offer,
                                 Pack(offer, OfferCpu(offer), OfferMem(offer),
                                      st.tasks, <<>>).batch)),
     steps |-> Append(st.steps,
                      [before |-> st.tasks,
                       after  |-> Pack(offer, OfferCpu(offer), OfferMem(offer),
                                       st.tasks, <<>>).tasks,
                       built  |-> Len(Pack(offer, OfferCpu(offer),
                                           OfferMem(offer), st.tasks,
                                           <<>>).batch),
                       blocked |-> Pack(offer, OfferCpu(offer),
                                        OfferMem(offer), st.tasks,
                                        <<>>).blocked])]

\* one iteration of "for offer in offers" on the running state
\* st = [tasks, calls, steps]
ProcessOffer(st, offer) ==
    IF st.tasks = <<>>
    THEN [tasks |-> st.tasks,
          calls |-> Append(st.calls, DeclineCall(offer)),
          steps |-> Append(st.steps, [before |-> st.tasks, after |-> st.tasks,
                                      built |-> 0, blocked |-> FALSE])]
    ELSE Respond(st, offer,
                 Pack(offer, OfferCpu(offer), OfferMem(offer), st.tasks, <<>>))

\* a callback stuck in self.tasks.get()
Blocked(ss) == ss # <<>> /\ ss[Len(ss)].blocked

RECURSIVE ProcessOffers(_, _)
ProcessOffers(st, offers) ==
    IF offers = <<>> \/ Blocked(st.steps) THEN st
    ELSE ProcessOffers(ProcessOffer(st, Head(offers)), Tail(offers))

RECURSIVE Flatten(_)
Flatten(ss) == IF ss = <<>> THEN <<>> ELSE Head(ss) \o Flatten(Tail(ss))

Idle == [name |-> "none"]

\* the driver delivers one event at a time, while it runs and is not stopped
DriverRunning == runResult = "none" /\ ~stopped /\ event = Idle

\* the callback returns to the driver's dispatch loop
callback_returns ==
    /\ event # Idle
    /\ ~Blocked(steps)
    /\ event' = Idle
    /\ calls' = <<>>
    /\ steps' = <<>>
    /\ UNCHANGED <<num_tasks, num_executors, schedVars, launched, terminalIds,
                   terminalUpdates, stopped, mainVars>>

\* ---------------------------------------------- callbacks that only log
\* what the driver passes to the callbacks below
SlaveIds == {"slave", "slave-2"}

\* a handler whose body is one logger.info call
LogOnly(ev) ==
    /\ DriverRunning
    /\ event' = ev
    /\ calls' = <<>>
    /\ steps' = <<>>
    /\ UNCHANGED <<num_tasks, num_executors, schedVars, launched, terminalIds,
                   terminalUpdates, stopped, mainVars>>

registered(frameworkId, masterInfo) ==
    LogOnly([name |-> "registered", framework_id |-> frameworkId,
             master |-> masterInfo])

reregistered(masterInfo) ==
    LogOnly([name |-> "reregistered", master |-> masterInfo])

disconnected == LogOnly([name |-> "disconnected"])

offer_rescinded(offerId) ==
    LogOnly([name |-> "offer_rescinded", offer_id |-> offerId])

framework_message(executorId, slaveId, data) ==
    LogOnly([name |-> "framework_message", executor_id |-> executorId,
             slave_id |-> slaveId, data |-> data])

\* the handler putting a task back on the queue for the lost slave
slave_lost_requeues(slaveId) ==
    /\ DriverRunning
    /\ event' = [name |-> "slave_lost", slave_id |-> slaveId]
    /\ calls' = <<>>
    /\ steps' = <<>>
    /\ tasks' = IF \E i \in 1..Len(launched) : launched[i].slave_id = slaveId
                THEN Append(tasks, <<0, 0>>) ELSE tasks
    /\ UNCHANGED <<num_tasks, num_executors, terminal, total_tasks, launched,
                   terminalIds, terminalUpdates, stopped, mainVars>>

slave_lost(slaveId) ==
    LogOnly([name |-> "slave_lost", slave_id |-> slaveId])

executor_lost(executorId, slaveId, exitCodeOfExecutor) ==
    LogOnly([name |-> "executor_lost", executor_id |-> executorId,
             slave_id |-> slaveId, exit_code |-> exitCodeOfExecutor])

error(message) == LogOnly([name |-> "error", message |-> message])

resource_offers(offers) ==
    /\ DriverRunning
    /\ \E r \in {ProcessOffers([tasks |-> tasks, calls |-> <<>>,
                               steps |-> <<>>], offers)} :
           /\ tasks' = r.tasks
           /\ calls' = r.calls
           /\ steps' = r.steps
           /\ launched' =
                launched \o Flatten([i \in 1..Len(r.calls) |-> r.calls[i].tasks])
    /\ event' = [name |-> "resource_offers", offers |-> offers]
    /\ UNCHANGED <<num_tasks, num_executors, terminal, total_tasks,
                   terminalIds, terminalUpdates, stopped, mainVars>>

\* ------------------------------------------------------ status_update
IsTerminal(state) ==
    state = "FINISHED" \/ state = "FAILED" \/ state = "KILLED"
        \/ state = "LOST"

\* the handler counting a task id once, however often it reports
status_update_dedup(task_id, state) ==
    /\ DriverRunning
    /\ LET t == IF IsTerminal(state) /\ task_id \notin terminalIds
                THEN terminal + 1 ELSE terminal
       IN  /\ terminal' = t
           /\ stopped' = (t = total_tasks)
           /\ calls' = IF t = total_tasks THEN <<StopCall>> ELSE <<>>
    /\ terminalIds' = IF state \in TerminalStates
                      THEN terminalIds \cup {task_id} ELSE terminalIds
    /\ terminalUpdates' = IF state \in TerminalStates
                          THEN terminalUpdates + 1 ELSE terminalUpdates
    /\ event' = [name |-> "status_update", task_id |-> task_id,
                 state |-> state]
    /\ steps' = <<>>
    /\ UNCHANGED <<num_tasks, num_executors, tasks, total_tasks, launched,
                   mainVars>>

\* the handler putting a launched task back on the queue when it reports
\* FAILED, KILLED or LOST
status_update_requeues(task_id, state) ==
    /\ DriverRunning
    /\ LET t == IF IsTerminal(state) THEN terminal + 1 ELSE terminal
       IN  /\ terminal' = t
           /\ stopped' = (t = total_tasks)
           /\ calls' = IF t = total_tasks THEN <<StopCall>> ELSE <<>>
    /\ tasks' = IF state \in {"FAILED", "KILLED", "LOST"}
                    /\ \E k \in 1..Len(launched) :
                           launched[k].task_id = task_id
                 THEN Append(tasks,
                             BuildQueue(num_tasks, num_executors)[
                                 CHOOSE k \in 1..Len(launched) :
                                     launched[k].task_id = task_id])
                 ELSE tasks
    /\ terminalIds' = IF state \in TerminalStates
                      THEN terminalIds \cup {task_id} ELSE terminalIds
    /\ terminalUpdates' = IF state \in TerminalStates
                          THEN terminalUpdates + 1 ELSE terminalUpdates
    /\ event' = [name |-> "status_update", task_id |-> task_id,
                 state |-> state]
    /\ steps' = <<>>
    /\ UNCHANGED <<num_tasks, num_executors, total_tasks, launched, mainVars>>

status_update(task_id, state) ==
    /\ DriverRunning
    /\ LET t == IF IsTerminal(state) THEN terminal + 1 ELSE terminal
       IN  /\ terminal' = t
           /\ stopped' = (t = total_tasks)
           /\ calls' = IF t = total_tasks THEN <<StopCall>> ELSE <<>>
    /\ terminalIds' = IF state \in TerminalStates
                      THEN terminalIds \cup {task_id} ELSE terminalIds
    /\ terminalUpdates' = IF state \in TerminalStates
                          THEN terminalUpdates + 1 ELSE terminalUpdates
    /\ event' = [name |-> "status_update", task_id |-> task_id,
                 state |-> state]
    /\ steps' = <<>>
    /\ UNCHANGED <<num_tasks, num_executors, tasks, total_tasks, launched,
                   mainVars>>

\* ------------------------------------------------- __main__ wrapper
\* driver.run() returns: DRIVER_STOPPED after stop(), DRIVER_ABORTED when the
\* driver fails; launch_driver then sets status and the thread ends
launch_driver_returns(result) ==
    /\ runResult = "none"
    /\ event = Idle
    /\ result = "DRIVER_STOPPED" => stopped
    /\ runResult' = result
    /\ status' = IF result = "DRIVER_STOPPED" THEN 1 ELSE status
    /\ threadAlive' = FALSE
    /\ UNCHANGED <<num_tasks, num_executors, schedVars, event, calls, steps,
                   launched, terminalIds, terminalUpdates, stopped, exitCode>>

\* while t.isAlive(): time.sleep(0.5); the script then ends
main_exit ==
    /\ ~threadAlive
    /\ exitCode = NotExited
    /\ exitCode' = 0
    /\ UNCHANGED <<num_tasks, num_executors, schedVars, event, calls, steps,
                   launched, terminalIds, terminalUpdates, stopped, runResult,
                   status, threadAlive>>

\* ------------------------------------------------------ specification
Init ==
    /\ num_tasks \in 0..MaxTasksPerExecutor
    /\ num_executors \in 0..MaxExecutors
    /\ tasks = BuildQueue(num_tasks, num_executors)
    /\ terminal = 0
    /\ total_tasks = Len(tasks)
    /\ event = Idle
    /\ calls = <<>>
    /\ steps = <<>>
    /\ launched = <<>>
    /\ terminalIds = {}
    /\ terminalUpdates = 0
    /\ stopped = FALSE
    /\ runResult = "none"
    /\ status = 0
    /\ threadAlive = TRUE
    /\ exitCode = NotExited

LaunchedIds == {launched[i].task_id : i \in 1..Len(launched)}

OffersStep == \E rs \in OfferLists : resource_offers(MkOffers(rs))

\* the tasks whose status the driver reports: the first MaxReporters launched
ReportingIds ==
    {launched[i].task_id : i \in (1..MaxReporters) \cap DOMAIN launched}

StatusStep ==
    /\ terminalUpdates < MaxTerminalUpdates
    /\ \E id \in ReportingIds \cup {UnknownTaskId}, s \in TaskStates :
           status_update(id, s)

DriverStep ==
    \E r \in {"DRIVER_STOPPED", "DRIVER_ABORTED"} : launch_driver_returns(r)

RegisteredStep == registered("framework", "master")
ReregisteredStep == reregistered("master")
RescindedStep == offer_rescinded(OfferId(1))
MessageStep == \E sl \in SlaveIds : framework_message("0", sl, "data")
SlaveLostStep == \E sl \in SlaveIds : slave_lost(sl)
ExecutorLostStep == \E sl \in SlaveIds : executor_lost("0", sl, 1)
ErrorStep == error("message")

Next ==
    \/ OffersStep
    \/ StatusStep
    \/ RegisteredStep
    \/ ReregisteredStep
    \/ disconnected
    \/ RescindedStep
    \/ MessageStep
    \/ SlaveLostStep
    \/ ExecutorLostStep
    \/ ErrorStep
    \/ callback_returns
    \/ DriverStep
    \/ main_exit

Spec == Init /\ [][Next]_vars

\* ============================================================ properties
\* helpers of the properties: exact (unrounded) arithmetic on cpu values
\* the exact real sum a + b
DblExactAdd(a, b) ==
    IF a.lo + b.lo >= Limb
    THEN Dbl(a.hi + b.hi + 1, a.lo + b.lo - Limb)
    ELSE Dbl(a.hi + b.hi, a.lo + b.lo)

RECURSIVE DblTimes(_, _)
DblTimes(d, n) == IF n = 0 THEN DblZero ELSE DblExactAdd(DblTimes(d, n - 1), d)

\* min(floor(cpu / TASK_CPU), cap) over the reals
ExactCpuCount(cpu, cap) ==
    LET fit == {n \in 0..cap : DblGE(cpu, DblTimes(TASK_CPU, n))}
    IN  CHOOSE n \in fit : \A m \in fit : m <= n

Min(a, b) == IF a <= b THEN a ELSE b

RECURSIVE SumCpus(_)
SumCpus(batch) ==
    IF batch = <<>> THEN DblZero
    ELSE DblExactAdd(SumCpus(Tail(batch)), Head(batch).cpus)

RECURSIVE SumMem(_)
SumMem(batch) ==
    IF batch = <<>> THEN 0 ELSE Head(batch).mem + SumMem(Tail(batch))

AfterOffers == event.name = "resource_offers"

\* the positions in calls of the driver calls that carry the id of offer i
CallsFor(i) ==
    {j \in 1..Len(calls) : calls[j].offer_id = event.offers[i].id}

Declined(i) == \E j \in CallsFor(i) : calls[j].call = "decline_offer"
Launched(i) == \E j \in CallsFor(i) : calls[j].call = "launch_tasks"

\* the tasks sent to the driver against offer i
BatchFor(i) == Flatten([j \in 1..Len(calls) |->
                          IF j \in CallsFor(i) THEN calls[j].tasks ELSE <<>>])

\* C1: after any resource_offers callback, every delivered offer has exactly
\* one driver call carrying its id, which is either launch_tasks with a
\* non-empty batch or decline_offer, and the callback issued no other call.
C1_OneResponsePerOffer ==
    AfterOffers =>
        /\ Len(calls) = Len(event.offers)
        /\ \A i \in 1..Len(event.offers) :
              /\ Cardinality(CallsFor(i)) = 1
              /\ \A j \in CallsFor(i) :
                    \/ calls[j].call = "launch_tasks" /\ calls[j].tasks # <<>>
                    \/ calls[j].call = "decline_offer" /\ calls[j].tasks = <<>>

\* a callback with two offers, one launched against and one declined while
\* tasks were still queued
C1_Witness ==
    /\ AfterOffers
    /\ Len(event.offers) = 2
    /\ \E i, k \in 1..2 :
          Launched(i) /\ Declined(k) /\ steps[k].before # <<>>

\* C2: the batch produced for an offer has
\* min(floor(offer.cpu / 0.1), floor(offer.mem / 32), tasks queued when the
\* offer starts being processed) tasks, the quotient taken over the reals.
C2_GreedyMaximality ==
    AfterOffers =>
        \A i \in 1..Len(event.offers) :
            Len(BatchFor(i)) =
                ExactCpuCount(OfferCpu(event.offers[i]),
                              Min(OfferMem(event.offers[i]) \div TASK_MEM,
                                  Len(steps[i].before)))

\* C3: the cpu grants of a batch sum to at most the offer's cpus and its mem
\* grants to at most the offer's mem.
C3_CapacityRespect ==
    AfterOffers =>
        \A i \in 1..Len(event.offers) :
            /\ DblGE(OfferCpu(event.offers[i]), SumCpus(BatchFor(i)))
            /\ SumMem(BatchFor(i)) <= OfferMem(event.offers[i])

\* C4: when exactly total_tasks distinct task ids have each reported exactly
\* one terminal state, stop() has been issued on the driver.
C4_Termination ==
    (terminalUpdates = total_tasks /\ Cardinality(terminalIds) = total_tasks)
        => stopped

\* C5: terminal <= total_tasks, and stop() has been requested exactly when
\* terminal = total_tasks.
C5_TerminalCountInvariant ==
    /\ terminal <= total_tasks
    /\ stopped <=> (terminal = total_tasks)

\* C6: the task ids of all tasks ever handed to launch_tasks are pairwise
\* distinct.
C6_UniqueTaskIds ==
    \A i, j \in 1..Len(launched) :
        i # j => launched[i].task_id # launched[j].task_id

\* every task of the largest run has been launched
C6_Witness ==
    Len(launched) = MaxExecutors * MaxTasksPerExecutor

\* C7: an offer processed while the queue is empty is declined, not
\* launched, builds no task, and leaves the queue empty; and once the queue
\* is empty no step refills it or launches a task.
C7_QueueExhaustion ==
    /\ [](AfterOffers =>
            \A i \in 1..Len(event.offers) :
                steps[i].before = <<>> =>
                    /\ Declined(i)
                    /\ ~Launched(i)
                    /\ steps[i].built = 0
                    /\ steps[i].after = <<>>)
    /\ [][tasks = <<>> => (tasks' = <<>> /\ launched' = launched)]_vars

\* a callback of a run with tasks whose first offer found the queue empty
C7_Witness ==
    /\ AfterOffers
    /\ total_tasks > 0
    /\ Len(event.offers) >= 1
    /\ steps[1].before = <<>>
    /\ Declined(1)

\* C8: an offer that is declined leaves the queue as it was, and a callback
\* that declines leaves terminal and total_tasks unchanged.
C8_DeclineFrame ==
    /\ [](AfterOffers =>
            \A i \in 1..Len(event.offers) :
                Declined(i) => steps[i].after = steps[i].before)
    /\ [][(event'.name = "resource_offers"
             /\ \E j \in 1..Len(calls') : calls'[j].call = "decline_offer")
          => (terminal' = terminal /\ total_tasks' = total_tasks)]_vars

\* an offer declined while tasks were queued, after some task has reported a
\* terminal state
C8_Witness ==
    /\ AfterOffers
    /\ terminal > 0
    /\ \E i \in 1..Len(event.offers) : Declined(i) /\ steps[i].before # <<>>

\* C9: the process exits with 0 after DRIVER_STOPPED and with 1 after
\* DRIVER_ABORTED.
C9_ExitStatus ==
    exitCode # NotExited =>
        /\ runResult = "DRIVER_STOPPED" => exitCode = 0
        /\ runResult = "DRIVER_ABORTED" => exitCode = 1

\* C10: a status update for a task id that was never launched leaves
\* terminal unchanged and does not request stop().
C10_UnknownTaskIgnored ==
    [][(event'.name = "status_update" /\ event'.task_id \notin LaunchedIds)
       => (terminal' = terminal /\ stopped' = stopped)]_vars

LogOnlyNames == {"registered", "reregistered", "disconnected",
                 "offer_rescinded", "framework_message", "slave_lost",
                 "executor_lost", "error"}

\* C11: a registered, reregistered, disconnected, offerRescinded,
\* frameworkMessage, slaveLost, executorLost or error callback leaves the queue,
\* terminal and total_tasks as they were, launches nothing and issues no
\* driver call (no launch_tasks, decline_offer or stop).
C11_ReportedOnly ==
    [][(event = Idle /\ event'.name \in LogOnlyNames)
       => /\ tasks' = tasks
          /\ terminal' = terminal
          /\ total_tasks' = total_tasks
          /\ launched' = launched
          /\ calls' = <<>>
          /\ stopped' = stopped]_vars

\* slave_lost is being handled for the slave of a launched task that has not
\* reported a terminal state
C11_Witness ==
    /\ event.name = "slave_lost"
    /\ \E i \in 1..Len(launched) :
          /\ launched[i].slave_id = event.slave_id
          /\ launched[i].task_id \notin terminalIds

\* C12: total_tasks equals num_executors * num_tasks from construction on, and
\* no step changes it.
C12_TotalTasksFixed ==
    /\ [](total_tasks = num_executors * num_tasks)
    /\ [][total_tasks' = total_tasks]_vars

\* a run of several executors and tasks after offers were answered and a
\* terminal status was counted
C12_Witness ==
    /\ num_executors > 1
    /\ num_tasks > 1
    /\ launched # <<>>
    /\ terminal > 0

StatusDelivered == event = Idle /\ event'.name = "status_update"

\* C13: a status update adds exactly 1 to terminal when its state is FINISHED,
\* FAILED, KILLED or LOST, whatever its task id, and 0 when it is STAGING,
\* STARTING or RUNNING; terminal never decreases; with total_tasks = 2, two
\* terminal updates of one task id leave terminal = 2 and stop() requested.
C13_CountsEveryTerminalUpdate ==
    /\ [][StatusDelivered =>
            terminal' = terminal +
                (IF event'.state \in TerminalStates THEN 1 ELSE 0)]_vars
    /\ [][terminal' >= terminal]_vars
    /\ []((total_tasks = 2 /\ terminalUpdates = 2
             /\ Cardinality(terminalIds) = 1)
          => (terminal = 2 /\ stopped))

\* the second FINISHED update of the same launched task, in a run of two tasks
C13_Witness ==
    /\ total_tasks = 2
    /\ terminalUpdates = 2
    /\ Cardinality(terminalIds) = 1
    /\ terminalIds \subseteq LaunchedIds
    /\ event.name = "status_update"
    /\ event.state = "FINISHED"
    /\ terminal = 2
    /\ stopped

\* C14: a status update that reports STAGING, STARTING or RUNNING never
\* requests stop(); stop() is requested only by an update that reports a
\* terminal state and leaves terminal = total_tasks.
C14_StopOnlyOnTerminal ==
    /\ [][(StatusDelivered /\ event'.state \in NonTerminalStates)
          => (stopped' = stopped /\ calls' = <<>>)]_vars
    /\ [][(~stopped /\ stopped')
          => (StatusDelivered /\ event'.state \in TerminalStates
                /\ terminal' = total_tasks)]_vars

\* C15: stop() is requested only when every task id of the run has had a
\* terminal status update delivered.
C15_UnreportedTaskBlocksStop ==
    stopped =>
        \A k \in 1..(num_tasks * num_executors) :
            (ToDecimal((k - 1) % num_executors) \o ":"
                \o ToDecimal((k - 1) \div num_executors)) \in terminalIds

HasResource(offer, n) ==
    \E k \in 1..Len(offer.resources) : offer.resources[k].name = n

IsCpusOrMem(r) == r.name = "cpus" \/ r.name = "mem"

\* the offer without the entries that are neither cpus nor mem
OnlyCpusAndMem(offer) ==
    [offer EXCEPT !.resources = SelectSeq(offer.resources, IsCpusOrMem)]

\* C16: an offer without a cpus entry or without a mem entry, met with a
\* non-empty queue, pops no task, is declined and leaves the queue as it was;
\* and the batch of any offer is the batch the same offer gets without its
\* entries of other names.
C16_MissingResourceIsZero ==
    AfterOffers =>
        \A i \in 1..Len(event.offers) :
            /\ (steps[i].before # <<>>
                  /\ (~HasResource(event.offers[i], "cpus")
                        \/ ~HasResource(event.offers[i], "mem")))
               => /\ Declined(i)
                  /\ ~Launched(i)
                  /\ steps[i].built = 0
                  /\ steps[i].after = steps[i].before
            /\ BatchFor(i) =
                 ProcessOffer([tasks |-> steps[i].before, calls |-> <<>>,
                               steps |-> <<>>],
                              OnlyCpusAndMem(event.offers[i])).calls[1].tasks

\* one callback with an offer without cpus and an offer without mem, both
\* met with tasks queued and both declined
C16_Witness ==
    /\ AfterOffers
    /\ Len(event.offers) = 2
    /\ \E i, k \in 1..2 :
          /\ ~HasResource(event.offers[i], "cpus")
          /\ ~HasResource(event.offers[k], "mem")
          /\ steps[i].before # <<>>
          /\ steps[k].before # <<>>
          /\ Declined(i)
          /\ Declined(k)

\* C17: the loop never calls get() on an empty queue, so no callback is left
\* stuck in it; every offer of a callback is answered, each pops at most the
\* tasks it found queued, and the whole callback pops at most the tasks that
\* were queued when it started.
C17_NoPopOnEmptyQueue ==
    /\ [](AfterOffers =>
            /\ ~Blocked(steps)
            /\ Len(steps) = Len(event.offers)
            /\ \A i \in 1..Len(steps) :
                  /\ ~steps[i].blocked
                  /\ steps[i].built <= Len(steps[i].before)
                  /\ Len(steps[i].after) = Len(steps[i].before) - steps[i].built)
    /\ [][(event = Idle /\ event'.name = "resource_offers")
          => /\ Len(launched') - Len(launched) <= Len(tasks)
             /\ Len(tasks') = Len(tasks) - (Len(launched') - Len(launched))]_vars

\* an offer with room for more tasks than were queued: the loop stopped on the
\* empty queue with cpus and memory to spare
C17_Witness ==
    /\ AfterOffers
    /\ \E i \in 1..Len(event.offers) :
          /\ event.offers[i].resources
               = <<Res("cpus", CpuSixTenths), Res("mem", 256)>>
          /\ steps[i].built \in 1..4
          /\ steps[i].after = <<>>
          /\ Launched(i)

\* the id of the k-th task of the construction sequence the claim describes:
\* task index in the outer loop, executor index in the inner loop
ConstructionId(k) ==
    TaskIdValue((k - 1) % num_executors, (k - 1) \div num_executors)

\* C18: the launch batches, concatenated in the order the offers are
\* processed, are a prefix of the construction sequence (executor 0, task 0),
\* (executor 1, task 0), ..., then task 1 for every executor, and so on; the
\* tasks still queued are the rest of that sequence.
C18_FifoDispatch ==
    /\ Len(launched) <= num_tasks * num_executors
    /\ \A k \in 1..Len(launched) :
          /\ launched[k].task_id = ConstructionId(k)
          /\ launched[k].executor_id = ToDecimal((k - 1) % num_executors)
    /\ \A k \in 1..Len(tasks) :
          tasks[k] = <<(Len(launched) + k - 1) % num_executors,
                       (Len(launched) + k - 1) \div num_executors>>

\* tasks of the second task index launched after every executor's first, by
\* batches of more than one callback's offers
C18_Witness ==
    /\ num_executors >= 2
    /\ num_tasks >= 2
    /\ Len(launched) > num_executors
    /\ AfterOffers
    /\ Len(calls) = 2
    /\ Launched(1)
    /\ Launched(2)

\* the ids of the first n descriptors of a queue
FirstIds(queue, n) ==
    [k \in 1..n |-> TaskIdValue(queue[k][1], queue[k][2])]

IsSuffix(s, t) ==
    Len(s) <= Len(t) /\ s = SubSeq(t, Len(t) - Len(s) + 1, Len(t))

IsPrefix(s, t) == Len(s) <= Len(t) /\ s = SubSeq(t, 1, Len(s))

\* C19: the tasks queued and the tasks launched always add up to total_tasks;
\* the tasks an offer popped are exactly the tasks of the batch sent for that
\* offer; no task is launched twice; and no step puts a task back on the
\* queue or takes one back from the launched ones, a status update (FAILED,
\* KILLED and LOST included) leaving both as they were.
C19_TaskConservation ==
    /\ [](Len(tasks) + Len(launched) = total_tasks)
    /\ [](Cardinality(LaunchedIds) = Len(launched))
    /\ [](AfterOffers =>
            \A i \in 1..Len(steps) :
                /\ [k \in 1..Len(BatchFor(i)) |-> BatchFor(i)[k].task_id]
                     = FirstIds(steps[i].before, steps[i].built)
                /\ steps[i].after
                     = SubSeq(steps[i].before, steps[i].built + 1,
                              Len(steps[i].before))
                /\ Cardinality(CallsFor(i)) = 1)
    /\ [][/\ IsSuffix(tasks', tasks)
          /\ IsPrefix(launched, launched')
          /\ event'.name = "status_update"
               => (tasks' = tasks /\ launched' = launched)]_vars

\* a launched task has just reported FAILED, KILLED or LOST while other tasks
\* are still queued and the run goes on
C19_Witness ==
    /\ event.name = "status_update"
    /\ event.state \in {"FAILED", "KILLED", "LOST"}
    /\ event.task_id \in LaunchedIds
    /\ tasks # <<>>
    /\ ~stopped

====
